---- MODULE Spec2Model ----
(***************************************************************************)
(* A model of the in-process resource-control primitives of the task      *)
(* tracking backend: the TTL response cache (CacheService), the per-IP    *)
(* sliding-window rate limiter (RateLimitGuard) and the queue job         *)
(* processor (TaskProcessorService).                                      *)
(*                                                                         *)
(* JavaScript runs every handler to completion between two awaits; the    *)
(* cache and rate-limiter methods contain no await, so each is one atomic *)
(* action here.  Time is the value Date.now() returns, in milliseconds.   *)
(***************************************************************************)
EXTENDS Integers, Sequences, FiniteSets, TLC

(***************************************************************************)
(* Bounds of the model.                                                    *)
(***************************************************************************)
\* The cache capacity used in the model (the program's is 1000).
MaxSizeBound == 2
\* One step of the clock, in milliseconds.
TickMs == 500
\* The clock stops advancing here.
MaxNow == 1500
\* Heap addresses available to JavaScript objects.
MaxAddr == 12

(***************************************************************************)
(* JavaScript values.  A value is null, a number, or a reference to an    *)
(* object on the heap.  A heap cell has a kind, an internal slot (the     *)
(* time of a Date, the entries of a Map or Set) and its own enumerable    *)
(* properties, in order (the elements of an array).                       *)
(***************************************************************************)
Null == [tag |-> "null", n |-> 0]
Num(i) == [tag |-> "num", n |-> i]
Ref(a) == [tag |-> "ref", n |-> a]

Addr == 1..MaxAddr
FreeCell == [kind |-> "free", slot |-> 0, kids |-> <<>>]

\* The objects the callers own when the service starts:
\*   1: { a: 1, b: [1] }      2: the array [1] inside it
\*   3: new Date(5)           4: new Map([[7, 7]])
\*   5: a function with one own property
\*   6: Object.create(null) with one property
CallerHeap ==
  [a \in Addr |->
     CASE a = 1 -> [kind |-> "object", slot |-> 0, kids |-> <<Num(1), Ref(2)>>]
       [] a = 2 -> [kind |-> "array", slot |-> 0, kids |-> <<Num(1)>>]
       [] a = 3 -> [kind |-> "date", slot |-> 5, kids |-> <<>>]
       [] a = 4 -> [kind |-> "exotic", slot |-> 7, kids |-> <<>>]
       [] a = 5 -> [kind |-> "function", slot |-> 0, kids |-> <<Num(1)>>]
       [] a = 6 -> [kind |-> "nullproto", slot |-> 0, kids |-> <<Num(1)>>]
       [] OTHER -> FreeCell]
CallerCells == {a \in Addr : CallerHeap[a].kind # "free"}
\* The values a caller hands to set.
PlainValues == {Null, Num(1), Ref(1), Ref(2), Ref(3)}
CallerValues == PlainValues \cup {Ref(4), Ref(5), Ref(6)}
PrimValues == {Num(1)}

FreeAddr(h) ==
  CHOOSE a \in Addr : h[a].kind = "free" /\ \A b \in Addr : h[b].kind = "free" => a <= b
FreeCount(h) == Cardinality({a \in Addr : h[a].kind = "free"})

RECURSIVE cellCount(_, _)
RECURSIVE kidsCount(_, _)
\* How many objects a value reaches (an upper bound of what a clone allocates).
cellCount(h, v) ==
  IF v.tag # "ref" THEN 0 ELSE 1 + kidsCount(h, h[v.n].kids)
kidsCount(h, ks) ==
  IF ks = <<>> THEN 0 ELSE cellCount(h, Head(ks)) + kidsCount(h, Tail(ks))

RECURSIVE deepClone(_, _)
RECURSIVE cloneKids(_, _)
RECURSIVE cloneInto(_, _, _)
\* CacheService.deepClone: [h: the heap after the call, v: the value returned,
\* ok: FALSE when the call throws].
deepClone(h, v) ==
  IF v.tag # "ref"
    THEN [h |-> h, v |-> v, ok |-> TRUE]                \* null or a primitive
    ELSE LET c == h[v.n] IN
      CASE c.kind = "function" ->                       \* typeof obj !== 'object'
             [h |-> h, v |-> v, ok |-> TRUE]
        [] c.kind = "date" ->                           \* new Date(obj.getTime())
             LET a == FreeAddr(h) IN
             [h |-> [h EXCEPT ![a] = [kind |-> "date", slot |-> c.slot, kids |-> <<>>]],
              v |-> Ref(a), ok |-> TRUE]
        [] c.kind = "array" -> cloneInto(h, c, "array") \* obj.map(deepClone)
        [] OTHER ->                                     \* for (key in obj) ... into {}
             IF c.kind = "nullproto" /\ c.kids # <<>>
               THEN [h |-> h, v |-> v, ok |-> FALSE]    \* obj.hasOwnProperty is undefined
               ELSE cloneInto(h, c, "object")
cloneInto(h, c, kind) ==
  LET a == FreeAddr(h)
      h1 == [h EXCEPT ![a] = [kind |-> kind, slot |-> 0, kids |-> <<>>]]
      r == cloneKids(h1, c.kids)
  IN [h |-> [r.h EXCEPT ![a].kids = r.vs], v |-> Ref(a), ok |-> r.ok]
cloneKids(h, ks) ==
  IF ks = <<>> THEN [h |-> h, vs |-> <<>>, ok |-> TRUE]
  ELSE LET r1 == deepClone(h, Head(ks)) IN
       IF ~r1.ok THEN [h |-> r1.h, vs |-> <<>>, ok |-> FALSE]
       ELSE LET r2 == cloneKids(r1.h, Tail(ks)) IN
            [h |-> r2.h, vs |-> <<r1.v>> \o r2.vs, ok |-> r2.ok]

RECURSIVE Abs(_, _)
\* The value as a tree: what a deep comparison of two values compares.
Abs(h, v) ==
  IF v.tag # "ref" THEN [tag |-> v.tag, n |-> v.n, kind |-> "prim", kids |-> <<>>]
  ELSE LET c == h[v.n] IN
       [tag |-> "ref", n |-> c.slot, kind |-> c.kind,
        kids |-> [i \in 1..Len(c.kids) |-> Abs(h, c.kids[i])]]

RefsOf(vs) == {v.n : v \in {w \in vs : w.tag = "ref"}}
KidSet(h, as) == UNION {RefsOf({h[a].kids[i] : i \in 1..Len(h[a].kids)}) : a \in as}
RECURSIVE Reach(_, _)
Reach(h, as) == LET more == as \cup KidSet(h, as) IN IF more = as THEN as ELSE Reach(h, more)
\* Garbage collection: objects nothing refers to any more give their address back.
Collect(h, roots) ==
  IF \A a \in Addr \ CallerCells : h[a].kind = "free" THEN h
  ELSE LET live == Reach(h, CallerCells \cup RefsOf(roots)) IN
       [a \in Addr |-> IF a \in live THEN h[a] ELSE FreeCell]

(***************************************************************************)
(* CacheService.  The store is a JavaScript object; Object.keys lists its *)
(* keys in insertion order, so the store is the sequence of its entries   *)
(* in that order.  Key 0 stands for the empty string, the other keys for  *)
(* distinct non-empty strings of the kind the callers build ('tasks:...', *)
(* 'stats:...'): none of them names a property every object inherits       *)
(* ('constructor', '__proto__').                                           *)
(***************************************************************************)
MAX_CACHE_SIZE == MaxSizeBound
EmptyKey == 0
Keys == 1..(MAX_CACHE_SIZE + 1)
AnyKey == Keys \cup {EmptyKey}
TTLs == {1, 2}
MsPerSecond == 1000

VARIABLES
  now,      \* Date.now()
  cache,    \* CacheService.cache, in Object.keys order
  heap,     \* the JavaScript heap
  snap,     \* per key, the tree of the value handed to the last set of it
  last,     \* the last cache call and what it returned
  maxSize,  \* this.MAX_CACHE_SIZE of the CacheService instance
  requestRecords,  \* rate-limit.guard.ts: per IP, the timestamps recorded
  allowedLog,      \* per IP, the timestamps of every check that was allowed
  usedCfg,         \* per IP, the options it was checked under so far
  nChecks,         \* how many checks were made
  rlast,           \* the last check and its outcome
  rejected,        \* per IP, its latest check if that was rejected
  queue,    \* the jobs of the 'task-processing' queue, in the order added
  tasks,    \* the task store: per task id, its status
  jobLog,   \* per job, what each delivery of it to process came to
  due,      \* the task store: per task id, its dueDate
  inflight  \* the reads of the task service waiting for the store's answer

cacheGroup == <<cache, heap, snap, last, maxSize>>
rateGroup == <<requestRecords, allowedLog, usedCfg, nChecks, rlast, rejected>>
jobGroup == <<queue, tasks, jobLog, due, inflight>>
vars == <<now, cacheGroup, rateGroup, jobGroup>>

NoCall == [op |-> "none", key |-> EmptyKey, res |-> "none", val |-> Null,
           abs |-> Abs(CallerHeap, Null), had |-> FALSE, exp |-> 0,
           evicted |-> <<>>, cloneThrew |-> FALSE,
           status |-> "", tried |-> <<>>, failed |-> {},
           succeeded |-> {}, affected |-> {}]
Call(op, key, res) == [NoCall EXCEPT !.op = op, !.key = key, !.res = res]

keysOf(c) == [i \in 1..Len(c) |-> c[i].key]
indexOf(c, k) ==
  IF \E i \in 1..Len(c) : c[i].key = k
    THEN CHOOSE i \in 1..Len(c) : c[i].key = k
    ELSE 0
removeAt(c, i) == SubSeq(c, 1, i - 1) \o SubSeq(c, i + 1, Len(c))
valuesOf(c) == {c[i].value : i \in 1..Len(c)}

\* (a variant of validKey: the key is not checked)
anyKey(k) == TRUE
\* !key || typeof key !== 'string'
validKey(k) == k # EmptyKey
\* (a variant of expired: the entry counts as stale at its expiresAt already)
expiredAtDeadline(e, t) == e.expiresAt <= t
\* item.expiresAt < Date.now()
expired(e, t) == e.expiresAt < t
\* (a variant of atCapacity: the store may grow one past the limit)
overCapacity(c) == Len(c) > maxSize
\* Object.keys(this.cache).length >= this.MAX_CACHE_SIZE
atCapacity(c) == Len(c) >= maxSize
\* (a variant of dropExpired: the stale entry is reported absent but kept)
keepExpired(c, i) == c
\* delete this.cache[key], on the access that finds the entry stale
dropExpired(c, i) == removeAt(c, i)

RECURSIVE oldestFrom(_, _, _)
\* The loop of evictOldest from position i on, best being the oldest so far.
oldestFrom(c, i, best) ==
  IF i > Len(c) THEN best
  ELSE oldestFrom(c, i + 1, IF c[i].expiresAt < c[best].expiresAt THEN i ELSE best)
\* (a variant of oldestIndex: the first key inserted is evicted)
firstIndex(c) == 1
oldestIndex(c) == oldestFrom(c, 1, 1)
evictOldest(c) == IF Len(c) = 0 THEN c ELSE removeAt(c, oldestIndex(c))

\* this.cache[key] = entry: an existing key keeps its place, a new one goes last.
assign(c, k, e) ==
  LET i == indexOf(c, k) IN
  IF i = 0 THEN Append(c, e) ELSE [c EXCEPT ![i] = e]

set(key, value, ttlSeconds) ==
  /\ UNCHANGED <<maxSize, rateGroup, jobGroup>>
  /\ IF ~validKey(key)
       THEN \* throw new Error('Invalid cache key'), logged and thrown again
            /\ last' = Call("set", key, "throw")
            /\ UNCHANGED <<now, cache, heap, snap>>
       ELSE LET c1 == IF atCapacity(cache) THEN evictOldest(cache) ELSE cache
                gone == IF atCapacity(cache) /\ Len(cache) > 0
                          THEN <<[key |-> cache[oldestIndex(cache)].key,
                                  expiresAt |-> cache[oldestIndex(cache)].expiresAt]>>
                          ELSE <<>>
                expiresAt == now + ttlSeconds * MsPerSecond
                r == deepClone(heap, value)
                c2 == IF r.ok
                        THEN assign(c1, key, [key |-> key, value |-> r.v, expiresAt |-> expiresAt])
                        ELSE c1
            IN /\ FreeCount(heap) >= cellCount(heap, value)
               /\ cache' = c2
               /\ heap' = Collect(r.h, valuesOf(c2))
               /\ snap' = IF r.ok THEN [snap EXCEPT ![key] = Abs(heap, value)] ELSE snap
               /\ last' = [Call("set", key, IF r.ok THEN "ok" ELSE "throw")
                             EXCEPT !.evicted = gone, !.exp = expiresAt,
                                    !.cloneThrew = ~r.ok]
               /\ UNCHANGED now

\* get(key); internalFailure is whether deepClone, when it runs on an object,
\* is cut short by a failure of its own (a throwing hasOwnProperty the value
\* carries, the call stack running out).
get(key, internalFailure) ==
  /\ UNCHANGED <<maxSize, rateGroup, jobGroup>>
  /\ LET i == indexOf(cache, key) IN
     IF ~validKey(key) \/ i = 0
       THEN /\ last' = Call("get", key, "miss")
            /\ heap' = Collect(heap, valuesOf(cache))
            /\ UNCHANGED <<now, cache, snap>>
       ELSE IF expired(cache[i], now)
         THEN /\ cache' = dropExpired(cache, i)
              /\ heap' = Collect(heap, valuesOf(cache'))
              /\ last' = [Call("get", key, "miss") EXCEPT !.had = TRUE,
                                                          !.exp = cache[i].expiresAt]
              /\ UNCHANGED <<now, snap>>
         ELSE LET r == IF internalFailure
                              THEN [h |-> heap, v |-> Null, ok |-> FALSE]
                              ELSE deepClone(heap, cache[i].value)
              IN
              /\ internalFailure => /\ cache[i].value.tag = "ref"
                                     /\ heap[cache[i].value.n].kind # "function"
              /\ FreeCount(heap) >= cellCount(heap, cache[i].value)
              /\ heap' = Collect(r.h, valuesOf(cache) \cup {IF r.ok THEN r.v ELSE Null})
              \* catch (error) { ...; return null }
              /\ last' = [Call("get", key, IF r.ok THEN "hit" ELSE "miss")
                            EXCEPT !.val = IF r.ok THEN r.v ELSE Null,
                                   !.abs = Abs(r.h, IF r.ok THEN r.v ELSE Null),
                                   !.had = TRUE,
                                   !.exp = cache[i].expiresAt,
                                   !.cloneThrew = ~r.ok]
              /\ UNCHANGED <<now, cache, snap>>

has(key) ==
  LET i == indexOf(cache, key) IN
  /\ IF ~validKey(key) \/ i = 0
       THEN /\ last' = Call("has", key, "miss")
            /\ UNCHANGED cache
       ELSE IF expired(cache[i], now)
         THEN /\ cache' = dropExpired(cache, i)
              /\ last' = [Call("has", key, "miss") EXCEPT !.had = TRUE,
                                                          !.exp = cache[i].expiresAt]
         ELSE /\ last' = [Call("has", key, "hit") EXCEPT !.had = TRUE,
                                                         !.exp = cache[i].expiresAt]
              /\ UNCHANGED cache
  /\ heap' = Collect(heap, valuesOf(cache'))
  /\ UNCHANGED <<now, snap>>
  /\ UNCHANGED <<maxSize, rateGroup, jobGroup>>

\* (a variant of exists: an entry past its expiresAt does not count)
existsLive(c, k, t) ==
  validKey(k) /\ indexOf(c, k) # 0 /\ ~expired(c[indexOf(c, k)], t)
\* const exists = key in this.cache, for a valid key; the time t plays no part.
exists(c, k, t) == validKey(k) /\ indexOf(c, k) # 0

delete(key) ==
  LET i == indexOf(cache, key)
      found == exists(cache, key, now)
  IN
  /\ cache' = IF found THEN removeAt(cache, i) ELSE cache
  /\ heap' = Collect(heap, valuesOf(cache'))
  /\ last' = [Call("delete", key, IF found THEN "hit" ELSE "miss")
                EXCEPT !.had = found,
                       !.exp = IF found THEN cache[i].expiresAt ELSE 0]
  /\ UNCHANGED <<now, snap>>
  /\ UNCHANGED <<maxSize, rateGroup, jobGroup>>

clear ==
  /\ cache' = <<>>
  /\ heap' = Collect(heap, {})
  /\ last' = Call("clear", EmptyKey, "ok")
  /\ UNCHANGED <<now, snap>>
  /\ UNCHANGED <<maxSize, rateGroup, jobGroup>>

\* keys.slice(0, 10)
StatsKeyLimit == 10
getStats(c) ==
  [size |-> Len(c), maxSize |-> maxSize,
   keys |-> SubSeq(keysOf(c), 1, IF Len(c) < StatsKeyLimit THEN Len(c) ELSE StatsKeyLimit)]

\* (a variant of sweep: nothing is removed)
sweepNone(c, t) == c
RECURSIVE sweepOne(_, _)
\* (a variant of sweep: the loop stops at the first entry it removes)
sweepOne(c, t) ==
  IF c = <<>> THEN <<>>
  ELSE IF Head(c).expiresAt < t THEN Tail(c)
       ELSE <<Head(c)>> \o sweepOne(Tail(c), t)

RECURSIVE sweep(_, _)
\* The loop of cleanupExpired over the keys.
sweep(c, t) ==
  IF c = <<>> THEN <<>>
  ELSE IF Head(c).expiresAt < t THEN sweep(Tail(c), t)
       ELSE <<Head(c)>> \o sweep(Tail(c), t)

\* The interval timer of startCleanup fires.
cleanupExpired ==
  /\ cache' = sweep(cache, now)
  /\ heap' = Collect(heap, valuesOf(cache'))
  /\ last' = [Call("cleanup", EmptyKey, "ok") EXCEPT !.had = cache' # cache]
  /\ UNCHANGED <<now, snap>>
  /\ UNCHANGED <<maxSize, rateGroup, jobGroup>>

\* A caller changes an object it holds: one it built, or one get returned.
mutate(a) ==
  /\ heap[a].kind # "free"
  /\ a \in Reach(heap, CallerCells \cup RefsOf({last.val}))
  /\ heap' = [heap EXCEPT ![a] =
                IF @.kids # <<>> THEN [@ EXCEPT !.kids[1] = Num(2)]
                ELSE [@ EXCEPT !.slot = 9]]
  /\ heap' # heap
  /\ last' = [last EXCEPT !.op = "mutate"]
  /\ UNCHANGED <<now, cache, snap>>
  /\ UNCHANGED <<maxSize, rateGroup, jobGroup>>

Tick ==
  /\ now + TickMs <= MaxNow
  /\ now' = now + TickMs
  /\ last' = Call("tick", EmptyKey, "ok")
  /\ UNCHANGED <<cache, heap, snap>>
  /\ UNCHANGED <<maxSize, rateGroup, jobGroup>>


CacheInit ==
  /\ now = 0
  /\ cache = <<>>
  /\ heap = CallerHeap
  /\ snap = [k \in Keys |-> Abs(CallerHeap, Null)]
  /\ last = NoCall
  /\ maxSize = MAX_CACHE_SIZE

CacheNext ==
  \/ \E k \in AnyKey, v \in PrimValues, t \in TTLs : set(k, v, t)
  \/ \E k \in AnyKey : get(k, FALSE)
  \/ \E k \in AnyKey : has(k)
  \/ \E k \in AnyKey : delete(k)
  \/ clear
  \/ cleanupExpired
  \/ Tick


\* The cache with callers that hand it objects and change them afterwards.
CloneKeys == {1}
CloneNext ==
  \/ \E k \in CloneKeys, v \in CallerValues : set(k, v, 1)
  \/ \E k \in CloneKeys, f \in BOOLEAN : get(k, f)
  \/ \E k \in CloneKeys : delete(k)
  \/ \E a \in Addr : mutate(a)


(***************************************************************************)
(* RateLimitGuard.  requestRecords maps an IP to the array of its records *)
(* ({count: 1, timestamp}); an IP never seen, or removed by the cleanup,  *)
(* has no array.                                                           *)
(***************************************************************************)
\* Checks made in one run of the model.
MaxChecks == 5
\* A long step of the clock, in milliseconds, and where long steps stop.
LongStep == 150000
MaxLongNow == 300000

IPs == {1, 2}
\* The options of the protected routes: a short window, and a window longer
\* than the cleanup's maxAge.
ShortWindow == [limit |-> 2, windowMs |-> 2 * TickMs]
LongWindow == [limit |-> 2, windowMs |-> 350000]
Configs == {ShortWindow, LongWindow}
\* const maxAge = 5 * 60 * 1000
maxAge == 5 * 60 * 1000

NoRecords == [present |-> FALSE, recs |-> <<>>]
NoRejection == [open |-> FALSE, at |-> 0, cfg |-> ShortWindow, retryAfter |-> 0]
NoCheck == [op |-> "none", ip |-> 0, cfg |-> ShortWindow, res |-> "none",
            limit |-> 0, current |-> 0, remaining |-> 0, retryAfter |-> 0,
            stored |-> 0,
            prior |-> 0, priorTotal |-> 0, lastAllowed |-> 0, swept |-> FALSE,
            after |-> NoRejection]

\* (a variant of inWindow: a record at the start of the window is inside)
inWindowInclusive(ts, windowStart) == ts >= windowStart
\* (a variant of inWindow: no record is ever outside the window)
inWindowAlways(ts, windowStart) == TRUE
\* record.timestamp > windowStart
inWindow(ts, windowStart) == ts > windowStart
filterRecords(recs, start) == SelectSeq(recs, LAMBDA ts : inWindow(ts, start))
countSince(log, start) == Len(SelectSeq(log, LAMBDA ts : ts > start))

\* (a variant of cleanupOldRecords: an IP left without records is not removed)
cleanupKeepsEmpty(rr, t) ==
  [ip \in IPs |->
     IF ~rr[ip].present THEN rr[ip]
     ELSE [present |-> TRUE,
           recs |-> SelectSeq(rr[ip].recs, LAMBDA ts : ts > t - maxAge)]]

\* cleanupOldRecords at time t.
cleanupOldRecords(rr, t) ==
  [ip \in IPs |->
     IF ~rr[ip].present THEN rr[ip]
     ELSE LET kept == SelectSeq(rr[ip].recs, LAMBDA ts : ts > t - maxAge) IN
          IF Len(kept) = 0 THEN NoRecords ELSE [present |-> TRUE, recs |-> kept]]

\* Math.ceil(windowMs / 1000)
retryAfterOf(windowMs) == (windowMs + 999) \div 1000

\* (a variant of withRecords: one array shared by all IPs)
withRecordsShared(rr, ip, recs) ==
  [o \in IPs |-> [present |-> TRUE, recs |-> recs]]
\* requestRecords[ip] = recs
withRecords(rr, ip, recs) ==
  [rr EXCEPT ![ip] = [present |-> TRUE, recs |-> recs]]

\* (a variant of rejectedRecords: the rejected request is recorded too)
rejectedRecordsPushed(kept, t) == Append(kept, t)
\* The IP's array when the check throws: the filtered array, the push that
\* follows the throw is not reached.
rejectedRecords(kept, t) == kept

\* handleRateLimit(ip, options); random is whether Math.random() < 0.001.
handleRateLimit(ip, options, random) ==
  LET windowStart == now - options.windowMs
      kept == filterRecords(requestRecords[ip].recs, windowStart)
      pushed == Append(kept, now)
      log == allowedLog[ip]
      seen == [NoCheck EXCEPT !.op = "check", !.ip = ip, !.cfg = options,
                 !.stored = Len(requestRecords[ip].recs),
                 !.prior = countSince(log, windowStart),
                 !.priorTotal = Len(log),
                 !.lastAllowed = IF Len(log) = 0 THEN 0 ELSE log[Len(log)],
                 !.after = rejected[ip]]
  IN /\ nChecks < MaxChecks
     /\ nChecks' = nChecks + 1
     /\ usedCfg' = [usedCfg EXCEPT ![ip] = @ \cup {options}]
     /\ UNCHANGED <<now, cacheGroup, jobGroup>>
     /\ IF Len(kept) >= options.limit
          THEN \* throw new HttpException({... remaining: 0 ...}, 429)
               /\ requestRecords' = withRecords(requestRecords, ip,
                                                rejectedRecords(kept, now))
               /\ rlast' = [seen EXCEPT !.res = "reject",
                                        !.limit = options.limit,
                                        !.current = Len(kept),
                                        !.remaining = 0,
                                        !.retryAfter = retryAfterOf(options.windowMs)]
               /\ rejected' = [rejected EXCEPT ![ip] =
                    [open |-> TRUE, at |-> now, cfg |-> options,
                     retryAfter |-> retryAfterOf(options.windowMs)]]
               /\ UNCHANGED allowedLog
          ELSE LET rr == withRecords(requestRecords, ip, pushed) IN
               /\ requestRecords' = IF random THEN cleanupOldRecords(rr, now) ELSE rr
               /\ allowedLog' = [allowedLog EXCEPT ![ip] = Append(@, now)]
               /\ rlast' = [seen EXCEPT !.res = "allow", !.swept = random]
               /\ rejected' = [rejected EXCEPT ![ip] = NoRejection]

\* Time passes: a short step (at most MaxNow past the last long step) or a
\* long one.
Elapse(d) ==
  /\ \/ d = TickMs /\ (now % LongStep) + TickMs <= MaxNow
     \/ d = LongStep /\ now + LongStep <= MaxLongNow
  /\ now' = now + d
  /\ rlast' = NoCheck
  /\ UNCHANGED <<requestRecords, allowedLog, usedCfg, nChecks, rejected,
                 cacheGroup, jobGroup>>

RateInit ==
  /\ requestRecords = [ip \in IPs |-> NoRecords]
  /\ allowedLog = [ip \in IPs |-> <<>>]
  /\ usedCfg = [ip \in IPs |-> {}]
  /\ nChecks = 0
  /\ rlast = NoCheck
  /\ rejected = [ip \in IPs |-> NoRejection]

RateNext ==
  \/ \E ip \in IPs, c \in Configs, r \in BOOLEAN : handleRateLimit(ip, c, r)
  \/ \E d \in {TickMs, LongStep} : Elapse(d)

(***************************************************************************)
(* TasksService and TaskProcessorService.  The task store and the queue   *)
(* are collaborators: a call of the store may fail, and the queue hands   *)
(* a waiting job to process, delivers it again with attemptsMade one      *)
(* higher when process throws, and completes it when process returns.     *)
(***************************************************************************)
\* Jobs added in one run of the model.
MaxJobs == 2

\* Rows the task store has room for.
MaxTasks == 2
StoreIds == 1..MaxTasks
\* The task that exists from the start, the one the jobs and the calls of
\* update, remove and updateStatus are about.
TaskIds == {1}
Statuses == {"PENDING", "IN_PROGRESS", "COMPLETED"}
\* What a call of the store comes to: it works, the update fails, or the
\* update works and the read after it fails.
DbOutcomes == {"ok", "updateFails", "findFails"}

\* The cache keys TasksService uses: 'stats:task-statistics' is key 1, key 2
\* starts with neither 'tasks:' nor 'stats:', the keys from 3 on are
\* 'tasks:<page>:<limit>:<status>:<priority>' keys.
StatsKey == 1
taskRelated(k) == k = StatsKey \/ k >= 3

deleteKey(c, k) ==
  IF validKey(k) /\ indexOf(c, k) # 0 THEN removeAt(c, indexOf(c, k)) ELSE c

RECURSIVE deleteListed(_, _)
\* for (const key of stats.keys) if (key.startsWith(...)) delete(key)
deleteListed(c, ks) ==
  IF ks = <<>> THEN c
  ELSE deleteListed(IF taskRelated(Head(ks)) THEN deleteKey(c, Head(ks)) ELSE c, Tail(ks))

\* TasksService.invalidateTaskCache; the keys 'tasks:*' and 'stats:*' it
\* deletes last are keys nothing is stored under.
invalidateTaskCache(c) ==
  LET c1 == deleteKey(c, StatsKey) IN
  deleteListed(c1, getStats(c1).keys)

\* TasksService.updateStatus(id, status) with the store behaving as db:
\* [threw, store: the task store after it, wrote: whether the update was made].
updateStatus(id, status, db, store) ==
  IF db = "updateFails" THEN [threw |-> TRUE, store |-> store, wrote |-> FALSE]
  ELSE IF id \notin StoreIds \/ store[id] = "absent"
    THEN [threw |-> TRUE, store |-> store, wrote |-> FALSE]   \* NotFoundException
    ELSE [threw |-> db = "findFails", store |-> [store EXCEPT ![id] = status],
          wrote |-> TRUE]

Returned(success, error) ==
  [threw |-> FALSE, success |-> success, error |-> error]
Threw == [threw |-> TRUE, success |-> FALSE, error |-> "thrown"]

\* handleStatusUpdate(job): [res: what it returns or that it throws, up: the
\* call of updateStatus it made, if any].
NoUpdate(store) == [threw |-> FALSE, store |-> store, wrote |-> FALSE]
\* (a variant of handleStatusUpdate: the status is not checked against the
\* enum)
handleStatusUpdateAnyStatus(job, db, store) ==
  IF job.data.taskId = 0 \/ job.data.status = ""
    THEN [res |-> Returned(FALSE, "Missing required data"), up |-> NoUpdate(store)]
  ELSE LET up == updateStatus(job.data.taskId, job.data.status, db, store) IN
       [res |-> IF up.threw THEN Threw ELSE Returned(TRUE, ""), up |-> up]
handleStatusUpdate(job, db, store) ==
  IF job.data.taskId = 0 \/ job.data.status = ""
    THEN [res |-> Returned(FALSE, "Missing required data"), up |-> NoUpdate(store)]
  ELSE IF job.data.status \notin Statuses
    THEN [res |-> Returned(FALSE, "Invalid status value"), up |-> NoUpdate(store)]
  ELSE LET up == updateStatus(job.data.taskId, job.data.status, db, store) IN
       [res |-> IF up.threw THEN Threw ELSE Returned(TRUE, ""), up |-> up]

handleOverdueTasks(job, db, store) ==
  IF job.data.taskId = 0 \/ job.data.userId = 0
    THEN [res |-> Returned(FALSE, "Missing required data for overdue task"),
          up |-> NoUpdate(store)]
  ELSE LET up == updateStatus(job.data.taskId, "IN_PROGRESS", db, store) IN
       [res |-> IF up.threw THEN Threw ELSE Returned(TRUE, ""), up |-> up]

\* (a variant of dispatch: no default case, an unknown name is handled as an
\* overdue notification)
dispatchNoDefault(job, db, store) ==
  IF job.name = "task-status-update" THEN handleStatusUpdate(job, db, store)
  ELSE handleOverdueTasks(job, db, store)
\* switch (job.name)
dispatch(job, db, store) ==
  CASE job.name = "task-status-update" -> handleStatusUpdate(job, db, store)
    [] job.name = "overdue-tasks-notification" -> handleOverdueTasks(job, db, store)
    [] OTHER -> [res |-> Returned(FALSE, "Unknown job type"),
                 up |-> NoUpdate(store)]

\* (a variant of shouldRetry: one more attempt before giving up)
retryOnceMore(attemptsMade) == attemptsMade <= 3
\* (a variant of shouldRetry: gives up after the first retry)
retryOnce(attemptsMade) == attemptsMade < 1
\* job.attemptsMade < 3
shouldRetry(attemptsMade) == attemptsMade < 3

\* process(job): the handler's result, or in the catch block the throw again
\* or the failure report.
processResult(job, db, store) ==
  LET h == dispatch(job, db, store)
  IN [handlerThrew |-> h.res.threw,
      up |-> h.up,
      res |-> IF ~h.res.threw THEN h.res
              ELSE IF shouldRetry(job.attemptsMade) THEN Threw
              ELSE Returned(FALSE, "Job failed after maximum retries")]

\* queue.add(name, data)
enqueue(name, data) ==
  /\ Len(queue) < MaxJobs
  /\ queue' = Append(queue, [name |-> name, data |-> data, attemptsMade |-> 0,
                             state |-> "waiting"])
  /\ jobLog' = Append(jobLog, <<>>)
  /\ UNCHANGED <<now, tasks, due, inflight, cacheGroup, rateGroup>>

\* The queue's reaction to what process did with a job: a job process threw
\* on is delivered again with attemptsMade one higher, a job process returned
\* for is completed and not delivered again.
queueReaction(job, threw) ==
  IF threw THEN [job EXCEPT !.attemptsMade = @ + 1]
           ELSE [job EXCEPT !.state = "completed"]

\* The worker takes waiting job j and runs process on it.
process(j, db) ==
  /\ j \in 1..Len(queue)
  /\ queue[j].state = "waiting"
  /\ LET job == queue[j]
         r == processResult(job, db, tasks)
         outcome == IF r.res.threw THEN "retry"
                    ELSE IF r.res.success THEN "success" ELSE "failure"
     IN /\ tasks' = r.up.store
        /\ cache' = IF r.up.wrote THEN invalidateTaskCache(cache) ELSE cache
        /\ heap' = Collect(heap, valuesOf(cache') \cup {last.val})
        /\ queue' = [queue EXCEPT ![j] = queueReaction(job, r.res.threw)]
        /\ jobLog' = [jobLog EXCEPT ![j] =
                        Append(@, [attempt |-> job.attemptsMade,
                                   threw |-> r.handlerThrew,
                                   outcome |-> outcome,
                                   error |-> r.res.error])]
  /\ UNCHANGED <<now, snap, last, maxSize, due, inflight, rateGroup>>

StatusJobData == [taskId : {0, 1}, status : {"", "COMPLETED", "BOGUS"}, userId : {0}]
OverdueJobData == [taskId : {0, 1}, status : {""}, userId : {0, 1}]

JobInit ==
  /\ queue = <<>>
  /\ tasks = [t \in StoreIds |-> IF t \in TaskIds THEN "PENDING" ELSE "absent"]
  /\ due = [t \in StoreIds |-> 0]
  /\ inflight = {}
  /\ jobLog = <<>>

JobNext ==
  \/ \E d \in StatusJobData : enqueue("task-status-update", d)
  \/ \E d \in OverdueJobData : enqueue("overdue-tasks-notification", d)
  \/ \E d \in OverdueJobData : enqueue("unknown-kind", d)
  \/ \E j \in 1..MaxJobs, db \in DbOutcomes : process(j, db)

(***************************************************************************)
(* TasksService with its cache: the reads go through the cache, the        *)
(* handlers that change tasks run invalidateTaskCache.                     *)
(***************************************************************************)
\* MAX_CACHE_SIZE of the cache the task service runs with: room for more
\* keys than getStats lists.
LargeSizeBound == 12

Pages == 1..(LargeSizeBound - 1)
\* `tasks:${page}:${limit}:${status || 'all'}:${priority || 'all'}`
tasksKey(page) == page + 2
ListTTL == 180
StatsTTL == 300
\* What the cache holds for a list or for the statistics (a plain object).
ResultValue == Num(1)

\* cacheService.get(key) at time t: whether it returns a value, and the store
\* after it.
lookup(c, k, t) ==
  LET i == indexOf(c, k) IN
  IF ~validKey(k) \/ i = 0 THEN [hit |-> FALSE, c |-> c]
  ELSE IF expired(c[i], t) THEN [hit |-> FALSE, c |-> dropExpired(c, i)]
  ELSE [hit |-> TRUE, c |-> c]

\* cacheService.has(key) at time t: what it returns, and the store after it.
present(c, k, t) ==
  LET i == indexOf(c, k) IN
  IF ~validKey(k) \/ i = 0 THEN [hit |-> FALSE, c |-> c]
  ELSE IF expired(c[i], t) THEN [hit |-> FALSE, c |-> dropExpired(c, i)]
  ELSE [hit |-> TRUE, c |-> c]

\* What cacheService.get(key) hands its caller at time t: the clone of the
\* stored value, or null.
returned(c, h, k, t) ==
  IF lookup(c, k, t).hit
    THEN LET r == deepClone(h, c[indexOf(c, k)].value) IN
         IF r.ok THEN r.v ELSE Null
    ELSE Null

\* The store after cacheService.set(key, value, ttlSeconds) at time t.
stored(c, k, v, ttlSeconds, t) ==
  LET c1 == IF atCapacity(c) THEN evictOldest(c) ELSE c IN
  assign(c1, k, [key |-> k, value |-> v, expiresAt |-> t + ttlSeconds * MsPerSecond])

\* A read through the cache: the cached value if there is one, else the
\* query, whose result is cached unless the query throws.
cachedRead(op, key, ttlSeconds, db) ==
  LET g == lookup(cache, key, now) IN
  /\ IF g.hit
       THEN /\ cache' = g.c
            /\ last' = Call(op, EmptyKey, "hit")
       ELSE IF db = "findFails"
         THEN /\ cache' = g.c
              /\ last' = Call(op, EmptyKey, "throw")
         ELSE /\ cache' = stored(g.c, key, ResultValue, ttlSeconds, now)
              /\ last' = Call(op, EmptyKey, "miss")
  /\ heap' = Collect(heap, valuesOf(cache'))
  /\ UNCHANGED <<now, snap, maxSize, rateGroup, jobGroup>>

\* findAll(page, limit): pages are asked for in turn, a page that is not
\* cached when all pages before it are.
findAll(page, db) ==
  /\ \A q \in 1..(page - 1) : indexOf(cache, tasksKey(q)) # 0
  /\ cachedRead("findAll", tasksKey(page), ListTTL, db)

getTaskStatistics(db) ==
  /\ db \in {"ok", "findFails"}
  /\ cachedRead("getTaskStatistics", StatsKey, StatsTTL, db)

\* taskQueue.add(name, data) inside try/catch: the job is added, or the add
\* fails and the failure is logged.
added(q, name, data, addOk) ==
  IF addOk THEN Append(q, [name |-> name, data |-> data, attemptsMade |-> 0,
                           state |-> "waiting"])
  ELSE q
logAdded(l, addOk) == IF addOk THEN Append(l, <<>>) ELSE l

\* update(id, updateTaskDto), dto.status being "" when the dto has no status.
update(id, dto, db, addOk) ==
  /\ addOk => Len(queue) < MaxJobs
  /\ IF db = "updateFails" \/ tasks[id] = "absent"
       THEN \* the store throws, or NotFoundException
            /\ last' = Call("update", EmptyKey, "throw")
            /\ UNCHANGED <<cache, tasks, queue, jobLog>>
       ELSE LET store == IF dto.status # "" THEN [tasks EXCEPT ![id] = dto.status]
                         ELSE tasks
                statusChanged == dto.status # "" /\ dto.status # store[id]
            IN /\ tasks' = store
               /\ cache' = invalidateTaskCache(cache)
               /\ IF db = "findFails"
                    THEN /\ last' = Call("update", EmptyKey, "throw")
                         /\ UNCHANGED <<queue, jobLog>>
                    ELSE /\ last' = [Call("update", EmptyKey, "ok") EXCEPT
                                       !.tried = IF statusChanged THEN <<id>> ELSE <<>>,
                                       !.failed = IF statusChanged /\ ~addOk THEN {id}
                                                  ELSE {}]
                         /\ queue' = IF statusChanged
                                       THEN added(queue, "task-status-update",
                                                  [taskId |-> id, status |-> store[id],
                                                   userId |-> 0], addOk)
                                       ELSE queue
                         /\ jobLog' = IF statusChanged THEN logAdded(jobLog, addOk)
                                      ELSE jobLog
  /\ heap' = Collect(heap, valuesOf(cache'))
  /\ UNCHANGED <<now, snap, maxSize, due, inflight, rateGroup>>

\* remove(id)
remove(id, db) ==
  /\ IF db = "updateFails" \/ tasks[id] = "absent"
       THEN /\ last' = Call("remove", EmptyKey, "throw")
            /\ UNCHANGED <<cache, tasks, due>>
       ELSE /\ tasks' = [tasks EXCEPT ![id] = "absent"]
            /\ due' = [due EXCEPT ![id] = 0]
            /\ cache' = invalidateTaskCache(cache)
            /\ last' = Call("remove", EmptyKey, "ok")
  /\ heap' = Collect(heap, valuesOf(cache'))
  /\ UNCHANGED <<now, snap, maxSize, queue, jobLog, inflight, rateGroup>>

\* updateStatus(id, status) called on the service.
callUpdateStatus(id, status, db) ==
  LET up == updateStatus(id, status, db, tasks) IN
  /\ tasks' = up.store
  /\ cache' = IF up.wrote THEN invalidateTaskCache(cache) ELSE cache
  /\ last' = Call("updateStatus", EmptyKey, IF up.threw THEN "throw" ELSE "ok")
  /\ heap' = Collect(heap, valuesOf(cache'))
  /\ UNCHANGED <<now, snap, maxSize, queue, jobLog, due, inflight, rateGroup>>

\* for (const ...) { try { await taskQueue.add(name, data) } catch { log } }:
\* the queue after the adds for datas in turn, the add for a task in okIds
\* works, any other fails.
RECURSIVE addedUntilFailure(_, _, _, _)
\* (a variant of addedAll: the first add that fails ends the loop)
addedUntilFailure(q, name, datas, okIds) ==
  IF datas = <<>> \/ Head(datas).taskId \notin okIds THEN q
  ELSE addedUntilFailure(added(q, name, Head(datas), TRUE), name, Tail(datas), okIds)
RECURSIVE addedAll(_, _, _, _)
addedAll(q, name, datas, okIds) ==
  IF datas = <<>> THEN q
  ELSE addedAll(added(q, name, Head(datas), Head(datas).taskId \in okIds),
                name, Tail(datas), okIds)
\* The log with an empty entry for every job of q it has none for yet.
logFor(l, q) == l \o [i \in 1..(Len(q) - Len(l)) |-> <<>>]
idsOf(ids) == {ids[i] : i \in 1..Len(ids)}

BatchActions == {"complete", "delete", "archive"}
\* batchProcessTasks({tasks: ids, action})
batchProcessTasks(ids, action, db, okIds) ==
  /\ Len(queue) + Cardinality(idsOf(ids) \cap okIds) <= MaxJobs
  /\ IF db = "updateFails" \/ action \notin {"complete", "delete"}
       THEN \* caught: every task is reported failed
            /\ last' = Call("batchProcessTasks", EmptyKey, "failed")
            /\ UNCHANGED <<cache, tasks, queue, jobLog, due>>
       ELSE /\ tasks' = [t \in StoreIds |->
                           IF t \in idsOf(ids) /\ tasks[t] # "absent"
                             THEN IF action = "complete" THEN "COMPLETED" ELSE "absent"
                             ELSE tasks[t]]
            /\ queue' = IF action = "complete"
                          THEN addedAll(queue, "task-status-update",
                                        [i \in 1..Len(ids) |->
                                           [taskId |-> ids[i], status |-> "COMPLETED",
                                            userId |-> 0]], okIds)
                          ELSE queue
            /\ due' = [t \in StoreIds |-> IF tasks'[t] = "absent" THEN 0 ELSE due[t]]
            /\ jobLog' = logFor(jobLog, queue')
            /\ cache' = invalidateTaskCache(cache)
            /\ last' = [Call("batchProcessTasks", EmptyKey, "ok") EXCEPT
                          !.tried = IF action = "complete" THEN ids ELSE <<>>,
                          !.failed = IF action = "complete" THEN idsOf(ids) \ okIds
                                     ELSE {},
                          \* taskIds.map(taskId => ({taskId, success: true, ...}))
                          !.succeeded = idsOf(ids),
                          \* the rows In(taskIds) matched
                          !.affected = {t \in idsOf(ids) \cap StoreIds :
                                          tasks[t] # "absent"}]
  /\ heap' = Collect(heap, valuesOf(cache'))
  /\ UNCHANGED <<now, snap, maxSize, inflight, rateGroup>>

TasksInit ==
  /\ now = 0
  /\ cache = <<>>
  /\ heap = CallerHeap
  /\ snap = [k \in Keys |-> Abs(CallerHeap, Null)]
  /\ last = NoCall
  /\ maxSize = LargeSizeBound

TasksNext ==
  \/ \E p \in Pages, db \in {"ok", "findFails"} : findAll(p, db)
  \/ \E db \in {"ok", "findFails"} : getTaskStatistics(db)
  \/ \E id \in TaskIds, st \in {"", "COMPLETED"}, db \in DbOutcomes, addOk \in BOOLEAN :
       update(id, [status |-> st], db, addOk)
  \/ \E id \in TaskIds, db \in {"ok", "updateFails"} : remove(id, db)
  \/ \E id \in TaskIds, a \in BatchActions, db \in {"ok", "updateFails"}, addOk \in BOOLEAN :
       batchProcessTasks(<<id>>, a, db, IF addOk THEN {id} ELSE {})
  \/ \E id \in TaskIds, st \in {"IN_PROGRESS"}, db \in DbOutcomes :
       callUpdateStatus(id, st, db)

(***************************************************************************)
(* The producers of jobs: TasksService.create, batchProcessTasks and the   *)
(* hourly OverdueTasksService.checkOverdueTasks.                           *)
(***************************************************************************)
\* The smallest id no task has.
freeId(store) ==
  CHOOSE id \in StoreIds :
    store[id] = "absent" /\ \A o \in StoreIds : store[o] = "absent" => id <= o

\* create(createTaskDto), the dto carrying status and dueDate; db is whether
\* save works.
create(status, dueDate, db, addOk) ==
  /\ \E id \in StoreIds : tasks[id] = "absent"
  /\ addOk => Len(queue) < MaxJobs
  /\ LET id == freeId(tasks) IN
     IF db = "updateFails"
       THEN /\ last' = Call("create", EmptyKey, "throw")
            /\ UNCHANGED <<tasks, due, queue, jobLog>>
       ELSE /\ tasks' = [tasks EXCEPT ![id] = status]
            /\ due' = [due EXCEPT ![id] = dueDate]
            /\ queue' = added(queue, "task-status-update",
                              [taskId |-> id, status |-> status, userId |-> 0], addOk)
            /\ jobLog' = logAdded(jobLog, addOk)
            \* return savedTask
            /\ last' = [Call("create", EmptyKey, "ok") EXCEPT
                          !.status = status, !.tried = <<id>>,
                          !.failed = IF addOk THEN {} ELSE {id}]
  /\ UNCHANGED <<now, cache, heap, snap, maxSize, inflight, rateGroup>>

\* (a variant of overdueTasks: the status is not part of the query)
overdueAnyStatus(store, dd, t) ==
  SelectSeq([i \in 1..MaxTasks |-> i],
            LAMBDA id : store[id] # "absent" /\ dd[id] < t)
\* tasksRepository.find({where: {dueDate: LessThan(now), status: PENDING}}):
\* the ids found, in the order of the store.
overdueTasks(store, dd, t) ==
  SelectSeq([i \in 1..MaxTasks |-> i],
            LAMBDA id : store[id] = "PENDING" /\ dd[id] < t)

\* checkOverdueTasks(); db is whether the query works.
checkOverdueTasks(db, okIds) ==
  LET found == overdueTasks(tasks, due, now) IN
  /\ okIds \subseteq idsOf(found)
  /\ Len(queue) + Cardinality(okIds) <= MaxJobs
  /\ IF db = "findFails"
       THEN \* caught and logged
            /\ last' = Call("checkOverdueTasks", EmptyKey, "logged")
            /\ UNCHANGED <<queue, jobLog>>
       ELSE /\ queue' = addedAll(queue, "overdue-tasks-notification",
                                 [i \in 1..Len(found) |->
                                    [taskId |-> found[i], status |-> "", userId |-> 1]],
                                 okIds)
            /\ jobLog' = logFor(jobLog, queue')
            /\ last' = [Call("checkOverdueTasks", EmptyKey, "ok") EXCEPT
                          !.tried = found, !.failed = idsOf(found) \ okIds]
  /\ UNCHANGED <<now, cache, heap, snap, maxSize, tasks, due, inflight, rateGroup>>

\* The lists of ids a batch is asked for.
BatchLists == {[i \in 1..n |-> i] : n \in 1..MaxTasks}
\* The dueDates of the tasks created: one before the service started, one a
\* tick after.
DueDates == {0 - TickMs, TickMs}

ProducerNext ==
  \/ \E st \in {"PENDING", "COMPLETED"}, d \in DueDates,
        db \in {"ok", "updateFails"}, addOk \in BOOLEAN :
       create(st, d, db, addOk)
  \/ \E db \in {"ok", "findFails"}, okIds \in SUBSET StoreIds :
       checkOverdueTasks(db, okIds)
  \/ \E ids \in BatchLists, db \in {"ok", "updateFails"} :
       \E okIds \in SUBSET idsOf(ids) : batchProcessTasks(ids, "complete", db, okIds)
  \/ Tick

(***************************************************************************)
(* The reads of TasksService step by step.  findAll and getTaskStatistics  *)
(* await the store between the cache miss and the cache set, so other      *)
(* handlers run in between: a read is the step that asks the cache and, on *)
(* a miss, the store, and the step that caches and returns the answer.     *)
(***************************************************************************)
\* Reads that may wait for the store at the same time.
MaxInflight == 2

statusCode(st) ==
  CASE st = "absent" -> 0
    [] st = "PENDING" -> 1
    [] st = "IN_PROGRESS" -> 2
    [] st = "COMPLETED" -> 3
RECURSIVE storeCode(_, _)
storeCode(store, id) ==
  IF id > MaxTasks THEN 0 ELSE statusCode(store[id]) + 4 * storeCode(store, id + 1)
\* What findAndCount or the counts answer for the store as it is: a value
\* that differs whenever the tasks or their statuses differ.
resultOf(store) == Num(storeCode(store, 1))

\* The first half of findAll or getTaskStatistics: cacheService.get, and on a
\* miss the query of the store.
readBegin(op, key, ttlSeconds) ==
  LET g == lookup(cache, key, now) IN
  /\ IF g.hit
       THEN /\ last' = [Call(op, EmptyKey, "hit") EXCEPT
                          !.val = returned(cache, heap, key, now)]
            /\ UNCHANGED inflight
       ELSE /\ Cardinality(inflight) < MaxInflight
            /\ [op |-> op, key |-> key, ttl |-> ttlSeconds,
                result |-> resultOf(tasks)] \notin inflight
            /\ inflight' = inflight \cup {[op |-> op, key |-> key, ttl |-> ttlSeconds,
                                           result |-> resultOf(tasks)]}
            /\ last' = Call(op, EmptyKey, "asked")
  /\ cache' = g.c
  /\ heap' = Collect(heap, valuesOf(cache'))
  /\ UNCHANGED <<now, snap, maxSize, queue, tasks, jobLog, due, rateGroup>>

\* The second half: cacheService.set(cacheKey, result, ttl) and return result,
\* of one of the reads waiting.
readEnd ==
  /\ \E r \in inflight :
       /\ inflight' = inflight \ {r}
       /\ cache' = stored(cache, r.key, r.result, r.ttl, now)
       /\ last' = [Call(r.op, EmptyKey, "miss") EXCEPT !.val = r.result]
  /\ heap' = Collect(heap, valuesOf(cache'))
  /\ UNCHANGED <<now, snap, maxSize, queue, tasks, jobLog, due, rateGroup>>

ReadRequests ==
  {[op |-> "findAll", key |-> tasksKey(1), ttl |-> ListTTL],
   [op |-> "getTaskStatistics", key |-> StatsKey, ttl |-> StatsTTL]}

\* The reads running alongside the handlers that change a task.
RaceNext ==
  \/ \E q \in ReadRequests : readBegin(q.op, q.key, q.ttl)
  \/ readEnd
  \/ \E id \in TaskIds, st \in {"", "COMPLETED"}, db \in {"ok", "updateFails"} :
       update(id, [status |-> st], db, FALSE)
  \/ \E id \in TaskIds, db \in {"ok", "updateFails"} : remove(id, db)
  \/ \E id \in TaskIds, st \in {"IN_PROGRESS"}, db \in {"ok", "updateFails"} :
       callUpdateStatus(id, st, db)
\* The reads running alongside create.
CreateReadNext ==
  \/ \E q \in ReadRequests : readBegin(q.op, q.key, q.ttl)
  \/ readEnd
  \/ \E st \in {"PENDING", "COMPLETED"}, d \in DueDates,
        db \in {"ok", "updateFails"}, addOk \in BOOLEAN :
       create(st, d, db, addOk)

\* The producers, the worker and direct status changes side by side: jobs
\* wait in the queue while create, updateStatus and the scan go on.
FlowNext ==
  \/ \E d \in DueDates : create("PENDING", d, "ok", TRUE)
  \/ \E okIds \in SUBSET StoreIds : checkOverdueTasks("ok", okIds)
  \/ \E id \in StoreIds, db \in {"ok", "updateFails"} :
       callUpdateStatus(id, "COMPLETED", db)
  \/ \E j \in 1..MaxJobs, db \in DbOutcomes : process(j, db)
  \/ Tick

Init == CacheInit /\ RateInit /\ JobInit

SpecCache == Init /\ [][CacheNext]_vars
\* The cache with callers that only store and never ask again; the interval
\* timer of startCleanup keeps firing and the clock keeps advancing.
SweepNext ==
  \/ \E k \in AnyKey, v \in PrimValues, t \in TTLs : set(k, v, t)
  \/ cleanupExpired
  \/ Tick
SpecSweep == Init /\ [][SweepNext]_vars
SpecSweepFair == SpecSweep /\ WF_vars(cleanupExpired) /\ WF_vars(Tick)
SpecClone == Init /\ [][CloneNext]_vars
\* The cache filled to capacity by callers some of whose values cannot be
\* cloned.
FullNext ==
  \/ \E k \in Keys, v \in {Num(1), Ref(6)}, t \in TTLs : set(k, v, t)
  \/ \E k \in Keys : delete(k)
  \/ Tick
SpecFull == Init /\ [][FullNext]_vars
SpecRate == Init /\ [][RateNext]_vars
SpecJob == Init /\ [][JobNext]_vars
\* The worker keeps taking waiting jobs.
SpecJobFair == SpecJob /\ WF_vars(\E j \in 1..MaxJobs, db \in DbOutcomes : process(j, db))
\* The task service on a cache with room for more keys than getStats lists.
InitTasks == TasksInit /\ RateInit /\ JobInit
SpecTasks == InitTasks /\ [][TasksNext]_vars
\* The producers of jobs, with time passing.
SpecProducers == Init /\ [][ProducerNext]_vars
SpecFlow == Init /\ [][FlowNext]_vars
SpecRace == Init /\ [][RaceNext]_vars
SpecCreateRead == Init /\ [][CreateReadNext]_vars

(***************************************************************************)
(* Properties of the cache.                                                *)
(***************************************************************************)
entriesBut(c, k) == {c[i] : i \in {j \in 1..Len(c) : c[j].key # k}}

\* C1: whatever calls were made, in whatever order, the store never holds
\* more than MAX_CACHE_SIZE entries.
C1_SizeBounded == getStats(cache).size <= MAX_CACHE_SIZE
\* A set of a new key found the store full and evicted another key.
C1_Witness ==
  /\ last.op = "set" /\ last.res = "ok" /\ last.evicted # <<>>
  /\ last.evicted[1].key # last.key
  /\ Len(cache) = MAX_CACHE_SIZE

\* C2: a set with a valid key that finds the store at capacity evicts exactly
\* one entry, and no entry present at that moment expires sooner than it.
C2_EvictsSoonest ==
  [][(last'.op = "set" /\ validKey(last'.key) /\ Len(cache) >= MAX_CACHE_SIZE) =>
       \E i \in 1..Len(cache) :
         /\ \A j \in 1..Len(cache) : cache[i].expiresAt <= cache[j].expiresAt
         /\ last'.evicted = <<[key |-> cache[i].key, expiresAt |-> cache[i].expiresAt]>>
         /\ entriesBut(cache', last'.key) = entriesBut(removeAt(cache, i), last'.key)
    ]_vars
\* A set evicted an entry that was not the first one inserted: an entry that
\* expires later than the evicted one was ahead of it and is still there.
C2_Witness ==
  /\ last.op = "set" /\ last.res = "ok" /\ last.evicted # <<>>
  /\ Len(cache) = MAX_CACHE_SIZE
  /\ cache[1].key # last.key
  /\ cache[1].expiresAt > last.evicted[1].expiresAt

C4_RoundTripIsolated ==
  (last.op = "get" /\ last.res = "hit") => last.abs = snap[last.key]

\* C5: a get of a key whose expiresAt has passed returns absent and removes
\* the entry, and the size getStats reports afterwards is one less.
C5_LazyExpiry ==
  [][\A i \in 1..Len(cache) :
       (last'.op = "get" /\ last'.key = cache[i].key /\ cache[i].expiresAt < now) =>
          /\ last'.res = "miss"
          /\ indexOf(cache', cache[i].key) = 0
          /\ getStats(cache').size = getStats(cache).size - 1
    ]_vars
\* A get found its entry stale while another entry stayed in the store.
C5_Witness ==
  /\ last.op = "get" /\ last.had /\ last.exp < now /\ last.res = "miss"
  /\ indexOf(cache, last.key) = 0
  /\ getStats(cache).size = 1

(***************************************************************************)
(* Properties of the rate limiter.                                         *)
(***************************************************************************)
\* The last call was a check of an IP that was only ever checked under the
\* options of that call.
SingleConfigCheck == rlast.op = "check" /\ usedCfg[rlast.ip] = {rlast.cfg}

\* C6: for an IP always checked under the same options, a check is rejected
\* exactly when at least limit of its earlier allowed checks lie within the
\* trailing windowMs, an allowed check is recorded, and the allowed checks
\* within the trailing windowMs never exceed limit.
C6_SlidingWindow ==
  /\ SingleConfigCheck =>
       /\ rlast.res = "reject" <=> rlast.prior >= rlast.cfg.limit
       /\ rlast.res = "allow" =>
            /\ requestRecords[rlast.ip].present
            /\ requestRecords[rlast.ip].recs[Len(requestRecords[rlast.ip].recs)] = now
  /\ \A ip \in IPs, c \in Configs :
       usedCfg[ip] = {c} => countSince(allowedLog[ip], now - c.windowMs) <= c.limit

\* C7: for an IP with no earlier requests and options {L, W}: the first L
\* checks are allowed; the next check, made while those L are all within the
\* trailing W, is rejected with remaining 0; a check made W or more after
\* the last allowed one is allowed.
C7_WindowCycle ==
  SingleConfigCheck =>
    /\ rlast.priorTotal < rlast.cfg.limit => rlast.res = "allow"
    /\ (rlast.priorTotal = rlast.cfg.limit /\ rlast.prior = rlast.cfg.limit) =>
         (rlast.res = "reject" /\ rlast.remaining = 0)
    /\ (rlast.priorTotal > 0 /\ now - rlast.lastAllowed >= rlast.cfg.windowMs) =>
         rlast.res = "allow"

\* The timestamps of recs that are > start, counted without the guard's own
\* filter.
stampsAfter(recs, start) == {i \in 1..Len(recs) : recs[i] > start}

\* C19 (as stated): in every state, every timestamp stored for an IP that was
\* only ever checked under options {L, W} is > now - W.
C19_StoredInWindow ==
  \A ip \in IPs, c \in Configs :
    usedCfg[ip] = {c} =>
      \A i \in 1..Len(requestRecords[ip].recs) :
        requestRecords[ip].recs[i] > now - c.windowMs
\* C19 (amended): right after a check of an IP under options {L, W}, every
\* timestamp stored for that IP is > now - W, and the check was rejected
\* exactly when at least L of the timestamps stored before it were
\* > now - W: a stored timestamp outside the window is not counted.
C19_CheckCountsWindowOnly ==
  [][rlast'.op = "check" =>
       LET ip == rlast'.ip
           start == now' - rlast'.cfg.windowMs
       IN /\ \A i \in 1..Len(requestRecords'[ip].recs) :
               requestRecords'[ip].recs[i] > start
          /\ rlast'.res = "reject" <=>
               Cardinality(stampsAfter(requestRecords[ip].recs, start))
                 >= rlast'.cfg.limit
     ]_vars
\* A check found at least limit timestamps stored for the IP, some of them
\* outside the window, and was allowed.
C19_Witness ==
  /\ rlast.op = "check" /\ rlast.res = "allow"
  /\ rlast.stored >= rlast.cfg.limit

\* C20: a rejected check carries limit, current, remaining 0 and retryAfter
\* (windowMs in seconds, rounded up), where current is the number of the
\* IP's stored timestamps within the window and is >= limit; the rejected
\* check leaves for the IP exactly those timestamps, adds none, and changes
\* no other IP's records.
C20_RejectionDetail ==
  [][rlast'.res = "reject" =>
       LET ip == rlast'.ip
           c == rlast'.cfg
           start == now' - c.windowMs
           inw == SelectSeq(requestRecords[ip].recs, LAMBDA ts : ts > start)
       IN /\ rlast'.limit = c.limit
          /\ rlast'.current = Len(inw)
          /\ rlast'.current >= c.limit
          /\ rlast'.remaining = 0
          /\ rlast'.retryAfter * 1000 >= c.windowMs
          /\ (rlast'.retryAfter - 1) * 1000 < c.windowMs
          /\ requestRecords'[ip].recs = inw
          /\ \A o \in IPs \ {ip} : requestRecords'[o] = requestRecords[o]
          /\ allowedLog' = allowedLog
     ]_vars
\* A check was rejected while the IP's earlier requests were within the
\* window, and the IP's records are those earlier requests.
C20_Witness ==
  /\ rlast.res = "reject"
  /\ rlast.current >= rlast.cfg.limit
  /\ Len(requestRecords[rlast.ip].recs) = rlast.current
  /\ requestRecords[rlast.ip].recs = allowedLog[rlast.ip]

\* C21: right after a check that ran cleanupOldRecords, every IP that still
\* has an array has a non-empty one whose latest timestamp is not older than
\* 5 minutes, and every IP that had a timestamp less than 5 minutes old
\* still has its array, with those timestamps.
C21_SweepRetention ==
  [][rlast'.swept =>
       /\ \A ip \in IPs :
            requestRecords'[ip].present =>
              /\ Len(requestRecords'[ip].recs) > 0
              /\ requestRecords'[ip].recs[Len(requestRecords'[ip].recs)]
                   >= now' - maxAge
       /\ requestRecords'[rlast'.ip].present
       /\ \A o \in IPs \ {rlast'.ip} :
            stampsAfter(requestRecords[o].recs, now' - maxAge) # {} =>
              /\ requestRecords'[o].present
              /\ requestRecords'[o].recs =
                   SelectSeq(requestRecords[o].recs, LAMBDA ts : ts > now' - maxAge)
     ]_vars
\* The sweep ran and removed another IP, whose last request was more than
\* 5 minutes ago.
C21_Witness ==
  /\ rlast.swept
  /\ \E o \in IPs \ {rlast.ip} :
       /\ ~requestRecords[o].present
       /\ Len(allowedLog[o]) > 0
       /\ allowedLog[o][Len(allowedLog[o])] < now - maxAge

\* The records a check of ip under options at time t leaves before the
\* sweep is considered, given the records rr it found.
beforeSweep(rr, ip, options, t) ==
  [rr EXCEPT ![ip] = [present |-> TRUE,
                      recs |-> Append(SelectSeq(rr[ip].recs,
                                 LAMBDA ts : ts > t - options.windowMs), t)]]
\* Whether a check under options c at time t of an IP with records recs is
\* rejected.
wouldReject(recs, c, t) ==
  Cardinality(stampsAfter(recs, t - c.windowMs)) >= c.limit

\* C22: when an allowed check ran cleanupOldRecords, the next check of any
\* IP under any options has the outcome it would have had if the sweep had
\* not run.
C22_SweepAdvisory ==
  [][(rlast'.res = "allow" /\ rlast'.swept) =>
       \A o \in IPs, c \in Configs :
         wouldReject(requestRecords'[o].recs, c, now')
           <=> wouldReject(beforeSweep(requestRecords, rlast'.ip, rlast'.cfg, now')[o].recs,
                           c, now')
     ]_vars

\* C23: a check of one IP that does not run the sweep leaves the records of
\* every other IP as they were, and is rejected exactly when at least limit
\* of that IP's own stored timestamps are within the window, whatever the
\* other IPs' records are.
C23_IndependentRecords ==
  [][(rlast'.op = "check" /\ ~rlast'.swept) =>
       /\ \A o \in IPs \ {rlast'.ip} : requestRecords'[o] = requestRecords[o]
       /\ rlast'.res = "reject" <=>
            wouldReject(requestRecords[rlast'.ip].recs, rlast'.cfg, now')
     ]_vars
\* One IP was rejected while the other, with fewer stored timestamps than
\* the limit, keeps its records.
C23_Witness ==
  /\ rlast.op = "check" /\ ~rlast.swept /\ rlast.res = "reject"
  /\ \E o \in IPs \ {rlast.ip} :
       /\ requestRecords[o].present
       /\ Len(requestRecords[o].recs) > 0
       /\ Len(requestRecords[o].recs) < rlast.cfg.limit

(***************************************************************************)
(* Properties of the job processor.                                        *)
(***************************************************************************)
Deliveries == {<<j, i>> \in (1..MaxJobs) \X (1..5) :
                 j <= Len(jobLog) /\ i <= Len(jobLog[j])}
countOutcome(l, o) == Cardinality({i \in 1..Len(l) : l[i].outcome = o})

\* C8: when the handler throws, process throws again if attemptsMade < 3 and
\* returns the failure report if attemptsMade >= 3; no delivery with
\* attemptsMade >= 3 ends in a throw.
C8_RetryOrReport ==
  \A d \in Deliveries :
    LET e == jobLog[d[1]][d[2]] IN
    /\ (e.threw /\ e.attempt < 3) => e.outcome = "retry"
    /\ (e.threw /\ e.attempt >= 3) =>
         (e.outcome = "failure" /\ e.error = "Job failed after maximum retries")
    /\ e.attempt >= 3 => e.outcome # "retry"
\* A job whose handler threw with attemptsMade 2 and again with attemptsMade 3.
C8_Witness ==
  \E d \in Deliveries :
    LET l == jobLog[d[1]] IN
    /\ d[2] = 4
    /\ l[3].threw /\ l[3].attempt = 2 /\ l[3].outcome = "retry"
    /\ l[4].threw /\ l[4].attempt = 3 /\ l[4].outcome = "failure"

\* C9: a job whose handler always throws is delivered with attemptsMade 0, 1,
\* 2 and 3, the first three deliveries end in a throw and the fourth in the
\* failure report; a completed job is never delivered again; and every job
\* added is eventually completed: again and again all jobs added so far are
\* completed, and a completed job stays so.
AlwaysThrew(l) == \A i \in 1..Len(l) : l[i].threw
AllCompleted == \A j \in 1..Len(queue) : queue[j].state = "completed"
C9_Safety ==
  \A j \in 1..Len(jobLog) :
    LET l == jobLog[j] IN
    AlwaysThrew(l) =>
      /\ Len(l) <= 4
      /\ \A i \in 1..Len(l) :
           /\ l[i].attempt = i - 1
           /\ l[i].outcome = IF i <= 3 THEN "retry" ELSE "failure"
      /\ Len(l) = 4 => queue[j].state = "completed"
C9_BoundedRetry ==
  /\ []C9_Safety
  /\ [][\A j \in 1..Len(queue) :
          queue[j].state = "completed" =>
            (jobLog'[j] = jobLog[j] /\ queue'[j] = queue[j])]_vars
  /\ []<>AllCompleted
\* A job whose handler threw four times has been completed with the report.
C9_Witness ==
  \E j \in 1..Len(jobLog) :
    /\ Len(jobLog[j]) = 4 /\ AlwaysThrew(jobLog[j])
    /\ jobLog[j][4].outcome = "failure"
    /\ queue[j].state = "completed"

\* C10: a job whose handler throws with attemptsMade 0 and 1 is delivered
\* again both times, and when the handler then succeeds with attemptsMade 2
\* the job has exactly one success outcome, no failure outcome, and no
\* later delivery.
C10_SucceedsOnThird ==
  \A j \in 1..Len(jobLog) :
    LET l == jobLog[j] IN
    /\ (Len(l) >= 2 /\ l[1].threw /\ l[2].threw) =>
         /\ l[1].attempt = 0 /\ l[1].outcome = "retry"
         /\ l[2].attempt = 1 /\ l[2].outcome = "retry"
         /\ (Len(l) = 2 => queue[j].state = "waiting" /\ queue[j].attemptsMade = 2)
    /\ (Len(l) >= 3 /\ l[1].threw /\ l[2].threw /\ ~l[3].threw
          /\ l[3].outcome = "success") =>
         /\ Len(l) = 3
         /\ l[3].attempt = 2
         /\ countOutcome(l, "success") = 1
         /\ countOutcome(l, "failure") = 0
         /\ queue[j].state = "completed"
\* A job completed with a success on its third delivery.
C10_Witness ==
  \E j \in 1..Len(jobLog) :
    /\ Len(jobLog[j]) = 3
    /\ jobLog[j][1].threw /\ jobLog[j][2].threw
    /\ jobLog[j][3].outcome = "success"
    /\ queue[j].state = "completed"

\* C11: a job of an unknown kind gets a returned {success: false, error}
\* from process whatever its attemptsMade and whatever the store would do,
\* with no write to the task store; in the queue it is completed by its first
\* delivery and never delivered again.
KnownNames == {"task-status-update", "overdue-tasks-notification"}
AttemptsRange == 0..4
C11_UnknownKind ==
  /\ \A d \in StatusJobData \cup OverdueJobData, a \in AttemptsRange, db \in DbOutcomes :
       LET r == processResult([name |-> "unknown-kind", data |-> d,
                               attemptsMade |-> a, state |-> "waiting"], db, tasks)
       IN /\ ~r.res.threw /\ ~r.res.success /\ r.res.error # ""
          /\ ~r.up.wrote /\ r.up.store = tasks
  /\ \A j \in 1..Len(queue) :
       queue[j].name \notin KnownNames =>
         /\ Len(jobLog[j]) <= 1
         /\ \A i \in 1..Len(jobLog[j]) :
              /\ jobLog[j][i].outcome = "failure"
              /\ queue[j].state = "completed" /\ queue[j].attemptsMade = 0
\* A job of an unknown kind was delivered and completed.
C11_Witness ==
  \E j \in 1..Len(queue) :
    /\ queue[j].name \notin KnownNames
    /\ Len(jobLog[j]) = 1 /\ queue[j].state = "completed"

\* C12: a task-status-update job without taskId or status or with a status
\* outside the enum, and an overdue-tasks-notification job without taskId or
\* userId, gets a returned {success: false, error} from process whatever its
\* attemptsMade and whatever the store would do, with no write to the task
\* store; in the queue it is completed by its first delivery and never
\* delivered again.
invalidPayload(name, d) ==
  \/ /\ name = "task-status-update"
     /\ (d.taskId = 0 \/ d.status = "" \/ d.status \notin Statuses)
  \/ /\ name = "overdue-tasks-notification"
     /\ (d.taskId = 0 \/ d.userId = 0)
C12_InvalidPayload ==
  /\ \A n \in KnownNames, d \in StatusJobData \cup OverdueJobData,
        a \in AttemptsRange, db \in DbOutcomes :
       invalidPayload(n, d) =>
         LET r == processResult([name |-> n, data |-> d, attemptsMade |-> a,
                                 state |-> "waiting"], db, tasks)
         IN /\ ~r.res.threw /\ ~r.res.success /\ r.res.error # ""
            /\ ~r.up.wrote /\ r.up.store = tasks
  /\ \A j \in 1..Len(queue) :
       invalidPayload(queue[j].name, queue[j].data) =>
         /\ Len(jobLog[j]) <= 1
         /\ \A i \in 1..Len(jobLog[j]) :
              /\ jobLog[j][i].outcome = "failure" /\ ~jobLog[j][i].threw
              /\ queue[j].state = "completed" /\ queue[j].attemptsMade = 0
\* A status update with a status outside the enum and an overdue notification
\* without userId were delivered and completed.
C12_Witness ==
  /\ \E j \in 1..Len(queue) :
       /\ queue[j].name = "task-status-update"
       /\ queue[j].data.taskId # 0 /\ queue[j].data.status = "BOGUS"
       /\ Len(jobLog[j]) = 1 /\ queue[j].state = "completed"
  /\ \E j \in 1..Len(queue) :
       /\ queue[j].name = "overdue-tasks-notification"
       /\ queue[j].data.taskId # 0 /\ queue[j].data.userId = 0
       /\ Len(jobLog[j]) = 1 /\ queue[j].state = "completed"

\* C14: a set with an empty or non-string key throws the invalid-key error
\* and leaves the store as it was, also when the store is full.
C14_InvalidKeySet ==
  [][(last'.op = "set" /\ ~(last'.key \in Keys)) =>
       (last'.res = "throw" /\ cache' = cache)]_vars
\* A set with the empty key was refused while the store was full.
C14_Witness ==
  /\ last.op = "set" /\ last.key = EmptyKey /\ last.res = "throw"
  /\ Len(cache) = MAX_CACHE_SIZE

\* C15 as stated: get, has and delete never throw; on a key that is invalid,
\* not stored, or stored and past its expiresAt they return absent / false;
\* on an invalid key or one not stored they leave the store as it was.
ReadOps == {"get", "has", "delete"}
C16_CloneFailureSurfaced ==
  (last.op \in {"set", "get"} /\ last.cloneThrew) => last.res = "throw"

\* C17: in every state, for every key, has returns true exactly when get
\* returns something other than null, the stored value null included, and
\* has and get leave the same store behind.
C17_HasMatchesGet ==
  \A k \in AnyKey :
    /\ present(cache, k, now).hit <=> returned(cache, heap, k, now) # Null
    /\ present(cache, k, now).c = lookup(cache, k, now).c

\* C18: right after cleanupExpired has run, the store holds no entry whose
\* expiresAt has passed, and the entries whose expiresAt has not passed are
\* all there, unchanged and in their order.
C18_SweepRemovesExpired ==
  [][last'.op = "cleanup" =>
       /\ \A i \in 1..Len(cache') : ~(cache'[i].expiresAt < now')
       /\ cache' = SelectSeq(cache, LAMBDA e : ~(e.expiresAt < now))
     ]_vars
\* A sweep removed an entry and left another, not yet expired, in place.
C18_Witness ==
  /\ last.op = "cleanup" /\ last.had
  /\ \E i \in 1..Len(cache) : cache[i].expiresAt >= now

\* C29: with the sweep timer firing again and again, the store is again and
\* again without any entry whose expiresAt has passed: an entry whose
\* expiresAt has passed is eventually removed, whether or not its key is ever
\* asked for again.
NoExpiredStored == \A i \in 1..Len(cache) : ~(cache[i].expiresAt < now)
C29_SweepEventuallyRemoves == []<>NoExpiredStored
\* The sweep removed the expired entries and with them emptied the store.
C29_Witness ==
  /\ last.op = "cleanup" /\ last.had
  /\ cache = <<>>

\* C30: a set of a key that is in the store removes no key and leaves the
\* number of entries as it was, also when the store holds MAX_CACHE_SIZE
\* entries.
C30_OverwriteKeepsOthers ==
  [][(last'.op = "set" /\ last'.res = "ok" /\ indexOf(cache, last'.key) # 0) =>
       /\ Len(cache') = Len(cache)
       /\ \A i \in 1..Len(cache) : indexOf(cache', cache[i].key) # 0
     ]_vars

\* C31: a set whose clone of the value fails leaves the store as it was, also
\* when the store holds MAX_CACHE_SIZE entries.
C31_FailedSetKeepsStore ==
  [][(last'.op = "set" /\ last'.cloneThrew) => cache' = cache]_vars

(***************************************************************************)
(* Properties of the task service's cache invalidation.                    *)
(***************************************************************************)
\* C13: when update, remove, updateStatus or batchProcessTasks has run its
\* invalidation and returned, the cache holds no key that starts with
\* 'tasks:' or 'stats:', however many keys it held.
MutationOps == {"update", "remove", "updateStatus", "batchProcessTasks"}
noTaskKeys(c) == \A i \in 1..Len(c) : ~taskRelated(c[i].key)
C13_InvalidationComplete ==
  (last.op \in MutationOps /\ last.res = "ok") => noTaskKeys(cache)

\* C27: with the queue delivering a job again each time process throws,
\* attemptsMade one higher, the handler of no job is run more than 3 times.
C27_ThreeAttempts ==
  \A j \in 1..Len(jobLog) :
    Cardinality({i \in 1..Len(jobLog[j]) :
                   queue[j].name \in KnownNames}) <= 3

(***************************************************************************)
(* Properties of the producers of jobs.                                    *)
(***************************************************************************)
ProducerOps == {"create", "batchProcessTasks", "checkOverdueTasks"}
\* The task ids of the jobs q has beyond the first n.
taskIdsOf(q) == [i \in 1..Len(q) |-> q[i].data.taskId]

\* C24: a call of create, batchProcessTasks('complete') or checkOverdueTasks
\* during which an add to the queue fails still returns normally; the task
\* create saved, or the statuses the batch set, are in the store; and the
\* job of every task whose add did not fail is in the queue, in order, also
\* of the tasks that come after the one whose add failed.
C24_EnqueueFailureTolerated ==
  [][(last'.op \in ProducerOps /\ last'.failed # {}) =>
       /\ last'.res = "ok"
       /\ last'.op = "create" =>
            /\ tasks[last'.tried[1]] = "absent"
            /\ tasks'[last'.tried[1]] = last'.status
       /\ last'.op = "batchProcessTasks" =>
            \A id \in idsOf(last'.tried) :
              tasks[id] # "absent" => tasks'[id] = "COMPLETED"
       /\ Len(queue') >= Len(queue)
       /\ SubSeq(queue', 1, Len(queue)) = queue
       /\ SubSeq(taskIdsOf(queue'), Len(queue) + 1, Len(queue')) =
            SelectSeq(last'.tried, LAMBDA id : id \notin last'.failed)
     ]_vars
\* The overdue scan found tasks 1 and 2, the add for task 1 failed, and the
\* job of task 2 was added after it.
C24_Witness ==
  /\ last.op = "checkOverdueTasks" /\ last.res = "ok"
  /\ last.tried = <<1, 2>> /\ last.failed = {1}
  /\ queue # <<>>
  /\ queue[Len(queue)].name = "overdue-tasks-notification"
  /\ queue[Len(queue)].data.taskId = 2

\* C25: create of a task with status PENDING returns the task with status
\* IN_PROGRESS when its dueDate is before the time of the call, and with
\* status PENDING when its dueDate is after it.
C25_OverdueCreateInProgress ==
  (last.op = "create" /\ last.res = "ok" /\ tasks[last.tried[1]] = "PENDING") =>
    /\ due[last.tried[1]] < now => last.status = "IN_PROGRESS"
    /\ due[last.tried[1]] > now => last.status = "PENDING"

\* C26: an update that returns normally has tried to add a
\* 'task-status-update' job exactly when it changed the status of the task.
C26_UpdateEnqueuesOnChange ==
  [][(last'.op = "update" /\ last'.res = "ok") =>
       (last'.tried # <<>> <=> \E id \in TaskIds : tasks'[id] # tasks[id])
     ]_vars

\* The jobs q has beyond the first n.
jobsAfter(q, n) == SubSeq(q, n + 1, Len(q))

\* C28: a run of checkOverdueTasks never raises and leaves the jobs already
\* queued as they are; when the query and every add work, it adds exactly
\* one 'overdue-tasks-notification' job for each task that is PENDING with a
\* dueDate before now and no other job; when the query fails it adds nothing.
C28_OverdueScan ==
  [][last'.op = "checkOverdueTasks" =>
       LET new == jobsAfter(queue', Len(queue)) IN
       /\ last'.res \in {"ok", "logged"}
       /\ Len(queue') >= Len(queue)
       /\ SubSeq(queue', 1, Len(queue)) = queue
       /\ UNCHANGED <<tasks, due>>
       /\ last'.res = "logged" => new = <<>>
       /\ (last'.res = "ok" /\ last'.failed = {}) =>
            /\ \A i \in 1..Len(new) : new[i].name = "overdue-tasks-notification"
            /\ \A id \in StoreIds :
                 Cardinality({i \in 1..Len(new) : new[i].data.taskId = id}) =
                   IF tasks[id] = "PENDING" /\ due[id] < now THEN 1 ELSE 0
     ]_vars
\* A run found the overdue PENDING task 1 and added its job, while task 2,
\* PENDING and due later, or overdue and COMPLETED, got none.
C28_Witness ==
  /\ last.op = "checkOverdueTasks" /\ last.res = "ok" /\ last.failed = {}
  /\ last.tried = <<1>>
  /\ queue # <<>> /\ queue[Len(queue)].data.taskId = 1
  /\ \/ tasks[2] = "PENDING" /\ due[2] > now
     \/ tasks[2] = "COMPLETED" /\ due[2] < now

(***************************************************************************)
(* Properties of one identity checked under several options.               *)
(***************************************************************************)
\* C37: a check under options c is rejected whenever at least c.limit allowed
\* checks of the identity lie within the trailing c.windowMs, whatever other
\* options the identity was checked under before.  (Stated for times before
\* maxAge, when the periodic cleanup has nothing to remove.)
C37_LongWindowKept ==
  [][(rlast'.op = "check" /\ now' < maxAge
        /\ rlast'.prior >= rlast'.cfg.limit) =>
       rlast'.res = "reject"
    ]_vars

\* C38: the advertised retry delay is sufficient: when the latest check of
\* an IP was rejected at time t with retryAfter r, a check of that IP under
\* the same options at a time >= t + r * 1000 is allowed.
C38_RetryAfterSufficient ==
  [][\A ip \in IPs :
       (/\ rlast'.op = "check" /\ rlast'.ip = ip
        /\ rejected[ip].open
        /\ rlast'.cfg = rejected[ip].cfg
        /\ now' >= rejected[ip].at + rejected[ip].retryAfter * MsPerSecond) =>
         rlast'.res = "allow"
    ]_vars
\* An IP rejected earlier came back under the same options once the
\* advertised delay was over, with no check of it in between, and was allowed.
C38_Witness ==
  /\ rlast.op = "check" /\ rlast.res = "allow"
  /\ rlast.after.open
  /\ rlast.after.cfg = rlast.cfg
  /\ rlast.after.retryAfter > 0
  /\ now = rlast.after.at + rlast.after.retryAfter * MsPerSecond
  /\ rlast.stored >= rlast.cfg.limit

(***************************************************************************)
(* Properties of jobs that wait while tasks change.  The status jobs here  *)
(* come from create, which queues the status the task was created with; a  *)
(* task whose status differs from that was changed after the job was       *)
(* queued.                                                                 *)
(***************************************************************************)
\* Job j is taken by the worker in this step.
taken(j) ==
  /\ j \in 1..Len(queue)
  /\ queue[j].state = "waiting"
  /\ Len(jobLog'[j]) = Len(jobLog[j]) + 1

\* C34: processing a 'task-status-update' job does not put back an older
\* status: a task whose status was changed after the job was queued has the
\* changed status after the job was processed.
C34_NoOlderStatus ==
  [][\A j \in 1..MaxJobs :
       (taken(j) /\ queue[j].name = "task-status-update") =>
         tasks'[queue[j].data.taskId] = tasks[queue[j].data.taskId]
    ]_vars

\* C35: processing an 'overdue-tasks-notification' job changes the status of
\* its task only when the task is PENDING at that moment.
C35_OverdueOnlyIfPending ==
  [][\A j \in 1..MaxJobs :
       (taken(j) /\ queue[j].name = "overdue-tasks-notification"
          /\ tasks[queue[j].data.taskId] # "PENDING") =>
         tasks'[queue[j].data.taskId] = tasks[queue[j].data.taskId]
    ]_vars

\* C36: no task has more than one 'overdue-tasks-notification' job waiting
\* in the queue.
C36_OneOverdueJobPerTask ==
  \A id \in StoreIds :
    Cardinality({j \in 1..Len(queue) :
                   /\ queue[j].name = "overdue-tasks-notification"
                   /\ queue[j].state = "waiting"
                   /\ queue[j].data.taskId = id}) <= 1

(***************************************************************************)
(* Properties of the reads through the cache.                              *)
(***************************************************************************)
CachedReads == {"findAll", "getTaskStatistics"}

\* C32: with fewer than 10 keys in the cache, a findAll or getTaskStatistics
\* that is answered from the cache is answered with the result for the task
\* store as the mutations completed so far have left it, however the reads
\* under way were interleaved with update, remove and updateStatus.
C32_NoStaleAfterMutation ==
  (last.op \in CachedReads /\ last.res = "hit") => last.val = resultOf(tasks)

\* Whether the result val was computed from a store that held task id.
countsTask(val, id) == (val.n \div (4 ^ (id - 1))) % 4 # 0

\* C33: after create has saved a task, a findAll or getTaskStatistics that is
\* answered from the cache is answered with a result that was computed with
\* that task in the store.
C33_CreateInvalidates ==
  (last.op \in CachedReads /\ last.res = "hit") =>
    \A id \in StoreIds : tasks[id] # "absent" => countsTask(last.val, id)

(***************************************************************************)
(* Properties of the bulk operation's report.                              *)
(***************************************************************************)
\* C39: batchProcessTasks reports success: true for a task id only if the
\* bulk operation updated or deleted a task with that id.
C39_SuccessOnlyIfAffected ==
  last.op = "batchProcessTasks" => last.succeeded \subseteq last.affected

====
